---- MODULE Spec2Model ----
(***************************************************************************)
(* A model of RefCell<T> (src/src/ref_cell.rs) with its guards Ref and     *)
(* RefMut (src/src/refs.rs).  The borrow state lives in a Cell<State>, the *)
(* payload in an UnsafeCell<T>.  Guards are identified by small integers;  *)
(* a guard is live from the call that returned it until its Drop ran.      *)
(***************************************************************************)
EXTENDS Integers, FiniteSets, Sequences, TLC

\* ---------------------------------------------------------------- bounds
\* Width of usize, scaled down so that the reader counter's whole range is
\* explored (the target's width is 16, 32 or 64).
UsizeBits == 2
\* Largest payload value; payloads are 0..MaxValue.
MaxValue == 1
\* Largest content of the stand-alone Cell<T>; contents are 0..MaxCellValue.
MaxCellValue == 3

UsizeModulus == 2 ^ UsizeBits
UsizeMax == UsizeModulus - 1
\* Largest number of guards that are live at the same time: one more than
\* the reader counter can count.
MaxGuards == UsizeModulus + 1
GuardIds == 1 .. MaxGuards
Values == 0 .. MaxValue
CellValues == 0 .. MaxCellValue

\* ------------------------------------------------------------ enum State
Unused == [tag |-> "Unused", n |-> 0]
HasReaders(n) == [tag |-> "HasReaders", n |-> n]
HasWriter == [tag |-> "HasWriter", n |-> 0]

State == {Unused, HasWriter} \cup {HasReaders(n) : n \in 0 .. UsizeMax}

\* usize arithmetic of the build: with overflow checks the operation panics
\* when the result is out of range, without them it wraps.
usize_wrap(x) == (x + UsizeModulus) % UsizeModulus
usize_in_range(x) == x >= 0 /\ x <= UsizeMax

\* Outcomes of a call.
Panics == {"PanicExpect", "PanicOverflow", "PanicUnreachable"}
IsPanic(res) == res \in Panics

VARIABLES
    state,           \* RefCell.state: the content of the Cell<State>
    value,           \* RefCell.value: the content of the UnsafeCell<T>
    owned,           \* TRUE while the RefCell exists (into_inner consumes it)
    refs,            \* identities of the live Ref guards
    refMuts,         \* identities of the live RefMut guards
    overflowChecks,  \* the build panics on integer overflow (else it wraps)
    given,           \* history: the value given to RefCell::new
    lastWrite,       \* history: <<v>> for the last value stored through a
                     \* RefMut of this cell, <<>> when there was none
    last,            \* the last call: its name, outcome, the guard it returned
                     \* and its output
    views,           \* <<old>> once a write through a RefMut replaced the
                     \* payload old while Refs were live and until the Refs
                     \* are gone: a read through a Ref's &T can yield old
    cell,            \* the content of a stand-alone Cell<T>
    cellHist         \* history: the last call that stored into that Cell,
                     \* as [op, arg]

vars == <<state, value, owned, refs, refMuts, overflowChecks, given, lastWrite,
          last, views, cell, cellHist>>

NoGuard == {}
NoOut == <<>>
Call(op, res, guard, out) == [op |-> op, res |-> res, guard |-> guard, out |-> out]

FreeIds == GuardIds \ (refs \cup refMuts)
\* The identity the next guard gets.
NextId == CHOOSE g \in FreeIds : \A h \in FreeIds : g <= h

\* try_borrow that forgets the HasWriter arm and hands out a Ref anyway.
try_borrow_ignoring_writer(s, oc) ==
    CASE s.tag = "Unused" -> [state |-> HasReaders(1), res |-> "Ok"]
      [] s.tag = "HasReaders" ->
            IF oc /\ ~usize_in_range(s.n + 1)
            THEN [state |-> s, res |-> "PanicOverflow"]
            ELSE [state |-> HasReaders(usize_wrap(s.n + 1)), res |-> "Ok"]
      [] s.tag = "HasWriter" -> [state |-> HasReaders(1), res |-> "Ok"]

\* ------------------------------------------------- RefCell::try_borrow
try_borrow_result(s, oc) ==
    CASE s.tag = "Unused" -> [state |-> HasReaders(1), res |-> "Ok"]
      [] s.tag = "HasReaders" ->
            IF oc /\ ~usize_in_range(s.n + 1)
            THEN [state |-> s, res |-> "PanicOverflow"]
            ELSE [state |-> HasReaders(usize_wrap(s.n + 1)), res |-> "Ok"]
      [] s.tag = "HasWriter" -> [state |-> s, res |-> "Err"]

\* try_borrow_mut that treats HasReaders like Unused.
try_borrow_mut_ignoring_readers(s) ==
    CASE s.tag = "Unused" -> [state |-> HasWriter, res |-> "Ok"]
      [] s.tag = "HasReaders" -> [state |-> HasWriter, res |-> "Ok"]
      [] s.tag = "HasWriter" -> [state |-> s, res |-> "Err"]

\* --------------------------------------------- RefCell::try_borrow_mut
try_borrow_mut_result(s) ==
    CASE s.tag = "Unused" -> [state |-> HasWriter, res |-> "Ok"]
      [] s.tag = "HasReaders" -> [state |-> s, res |-> "Err"]
      [] s.tag = "HasWriter" -> [state |-> s, res |-> "Err"]

\* Result::expect: an Err becomes a panic, anything else passes through.
expect(r) == IF r.res = "Err" THEN [state |-> r.state, res |-> "PanicExpect"] ELSE r

\* Drop for Ref that always decrements and never resets to Unused.
Ref_drop_always_decrementing(s, oc) ==
    IF s.tag = "HasReaders"
    THEN IF oc /\ ~usize_in_range(s.n - 1)
         THEN [state |-> s, res |-> "PanicOverflow"]
         ELSE [state |-> HasReaders(usize_wrap(s.n - 1)), res |-> "Ok"]
    ELSE [state |-> s, res |-> "PanicUnreachable"]

\* ----------------------------------------------------- Drop for Ref
Ref_drop_result(s, oc) ==
    IF s.tag = "HasReaders"
    THEN IF s.n = 1
         THEN [state |-> Unused, res |-> "Ok"]
         ELSE IF oc /\ ~usize_in_range(s.n - 1)
              THEN [state |-> s, res |-> "PanicOverflow"]
              ELSE [state |-> HasReaders(usize_wrap(s.n - 1)), res |-> "Ok"]
    ELSE [state |-> s, res |-> "PanicUnreachable"]

\* -------------------------------------------------- Drop for RefMut
RefMut_drop_result(s) ==
    IF s.tag = "HasWriter"
    THEN [state |-> Unused, res |-> "Ok"]
    ELSE [state |-> s, res |-> "PanicUnreachable"]

\* T::default() of the Cell's content type.
Default == 0
\* The last store into the Cell.
Stored(op, arg) == [op |-> op, arg |-> arg]
\* No write happened while the live Refs were live.
NoViews == <<>>
\* The views once the Refs in rs are the live ones.
Views(vw, rs) == IF rs = {} THEN NoViews ELSE vw
\* The values a read through a Ref can yield when the payload is v: writing
\* to a location a live &T points to is undefined behaviour, after which the
\* read yields the old or the new value.
Readable(vw, v) == {v} \cup {vw[i] : i \in DOMAIN vw}

\* ------------------------------------------------------------ Init
\* RefCell::new(v), built with or without overflow checks.
Init ==
    /\ value \in Values
    /\ given = value
    /\ lastWrite = <<>>
    /\ state = Unused
    /\ owned = TRUE
    /\ refs = {}
    /\ refMuts = {}
    /\ overflowChecks \in BOOLEAN
    /\ last = Call("new", "Ok", NoGuard, NoOut)
    /\ views = NoViews
    /\ cell = Default
    /\ cellHist = Stored("new", Default)

\* RefCell::new(v) after the previous cell was consumed.
new(v) ==
    /\ ~owned
    /\ value' = v
    /\ given' = v
    /\ lastWrite' = <<>>
    /\ state' = Unused
    /\ owned' = TRUE
    /\ last' = Call("new", "Ok", NoGuard, NoOut)
    /\ UNCHANGED <<refs, refMuts, overflowChecks, cell, cellHist, views>>

\* A call that returns Result<Ref, _> or Ref: on Ok a new Ref is live.
ReadCall(op, r) ==
    /\ owned
    /\ r.res = "Ok" => FreeIds # {}
    /\ state' = r.state
    /\ refs' = IF r.res = "Ok" THEN refs \cup {NextId} ELSE refs
    /\ last' = Call(op, r.res, IF r.res = "Ok" THEN {NextId} ELSE NoGuard, NoOut)
    /\ UNCHANGED <<value, owned, refMuts, overflowChecks, cell, cellHist, given, lastWrite, views>>

\* A call that returns Result<RefMut, _> or RefMut.
WriteCall(op, r) ==
    /\ owned
    /\ r.res = "Ok" => FreeIds # {}
    /\ state' = r.state
    /\ refMuts' = IF r.res = "Ok" THEN refMuts \cup {NextId} ELSE refMuts
    /\ last' = Call(op, r.res, IF r.res = "Ok" THEN {NextId} ELSE NoGuard, NoOut)
    /\ UNCHANGED <<value, owned, refs, overflowChecks, cell, cellHist, given, lastWrite, views>>

try_borrow == ReadCall("try_borrow", try_borrow_result(state, overflowChecks))

borrow == ReadCall("borrow", expect(try_borrow_result(state, overflowChecks)))

try_borrow_mut == WriteCall("try_borrow_mut", try_borrow_mut_result(state))

borrow_mut == WriteCall("borrow_mut", expect(try_borrow_mut_result(state)))

\* The Ref g goes out of scope or is dropped: its Drop runs once.
Ref_drop(g) ==
    /\ g \in refs
    /\ LET r == Ref_drop_result(state, overflowChecks) IN
         /\ state' = r.state
         /\ last' = Call("Ref_drop", r.res, NoGuard, NoOut)
    /\ refs' = refs \ {g}
    /\ views' = Views(views, refs \ {g})
    /\ UNCHANGED <<value, owned, refMuts, overflowChecks, cell, cellHist, given, lastWrite>>

\* The RefMut g goes out of scope or is dropped.
RefMut_drop(g) ==
    /\ g \in refMuts
    /\ LET r == RefMut_drop_result(state) IN
         /\ state' = r.state
         /\ last' = Call("RefMut_drop", r.res, NoGuard, NoOut)
    /\ refMuts' = refMuts \ {g}
    /\ UNCHANGED <<value, owned, refs, overflowChecks, cell, cellHist, given, lastWrite, views>>

\* *guard = v through DerefMut for RefMut.  A Ref that is live at the same
\* time holds a &T to the written location, which is undefined behaviour: a
\* later read through it yields the old or the new value.
deref_mut(g, v) ==
    /\ g \in refMuts
    /\ value' = v
    /\ lastWrite' = <<v>>
    /\ views' = IF refs = {} \/ v = value THEN views ELSE <<value>>
    /\ last' = Call("deref_mut", "Ok", NoGuard, NoOut)
    /\ UNCHANGED <<state, owned, refs, refMuts, overflowChecks, cell, cellHist, given>>

\* *guard through Deref for Ref or RefMut.
deref(g) ==
    /\ g \in refs \cup refMuts
    /\ \E v \in (IF g \in refs THEN Readable(views, value) ELSE {value}) :
          last' = Call("deref", "Ok", NoGuard, <<v>>)
    /\ UNCHANGED <<state, value, owned, refs, refMuts, overflowChecks, cell, cellHist, given, lastWrite, views>>

\* into_inner that hands back a default value, as a take() would leave.
UnsafeCell_into_inner_default(v) == 0

\* UnsafeCell::into_inner
UnsafeCell_into_inner(v) == v

\* RefCell::into_inner(self): the borrow checker admits it only when no
\* guard borrows the cell.
into_inner ==
    /\ owned
    /\ refs = {}
    /\ refMuts = {}
    /\ owned' = FALSE
    /\ last' = Call("into_inner", "Ok", NoGuard, <<UnsafeCell_into_inner(value)>>)
    /\ UNCHANGED <<state, value, refs, refMuts, overflowChecks, cell, cellHist, given, lastWrite, views>>

\* What Debug for RefCell writes and the state it leaves, from state s.
Placeholder == "<borrowed>"
fmt_result(s, v, oc) ==
    LET b == try_borrow_result(s, oc) IN
    CASE b.res = "Ok" ->
            \* the temporary Ref is dropped when the match arm ends
            LET d == Ref_drop_result(b.state, oc) IN
            [state |-> d.state, res |-> d.res,
             out |-> <<"RefCell", "value", <<"Ref", "value", v>>>>]
      [] b.res = "Err" ->
            [state |-> b.state, res |-> "Ok",
             out |-> <<"RefCell", "value", Placeholder>>]
      [] OTHER -> [state |-> b.state, res |-> b.res, out |-> NoOut]

\* format!("{:?}", cell)
fmt ==
    /\ owned
    /\ LET r == fmt_result(state, value, overflowChecks) IN
         /\ state' = r.state
         /\ last' = Call("fmt", r.res, NoGuard, r.out)
    /\ UNCHANGED <<value, owned, refs, refMuts, overflowChecks, cell, cellHist, given, lastWrite, views>>

Next ==
    \/ try_borrow
    \/ borrow
    \/ try_borrow_mut
    \/ borrow_mut
    \/ \E g \in GuardIds : Ref_drop(g)
    \/ \E g \in GuardIds : RefMut_drop(g)
    \/ \E g \in GuardIds : \E v \in Values : deref_mut(g, v)
    \/ \E g \in GuardIds : deref(g)
    \/ into_inner
    \/ fmt
    \/ \E v \in Values : new(v)

Spec == Init /\ [][Next]_vars

TypeOK ==
    /\ state \in State
    /\ value \in Values
    /\ owned \in BOOLEAN
    /\ refs \subseteq GuardIds
    /\ refMuts \subseteq GuardIds
    /\ refs \cap refMuts = {}

\* ================================================= Cell<T> (cell.rs)
\* The RefCell side of the state, which no Cell or guard call touches.
refCellVars == <<value, owned, overflowChecks, given, lastWrite, views>>
guardVars == <<state, refs, refMuts>>

\* The shared references the calls are made through: the owner's binding
\* and two copies of &cell.
Aliases == {"cell", "p1", "p2"}

\* Cell::set that stores into a copy and leaves the cell as it was.
Cell_set_lost(c, val) == c

\* Cell::set: *cell = value; the content afterwards.
Cell_set_result(c, val) == val

\* Cell::get: a copy of the content.
Cell_get_result(c) == c

\* Cell::replace that hands back the value it has just stored.
Cell_replace_returning_new(c, val) == [cell |-> val, ret |-> val]

\* Cell::replace: mem::replace(&mut *self.value.get(), val).
Cell_replace_result(c, val) == [cell |-> val, ret |-> c]

\* Cell::take that copies the content out and leaves it in place.
Cell_take_copying(c) == [cell |-> c, ret |-> c]

\* Cell::take: self.replace(Default::default()).
Cell_take_result(c) == Cell_replace_result(c, Default)

\* Cell::new(v), for every v.
InitCell ==
    /\ cell \in CellValues
    /\ cellHist = Stored("new", cell)
    /\ last = Call("Cell_new", "Ok", NoGuard, <<cell>>)
    /\ value = 0
    /\ given = 0
    /\ lastWrite = <<>>
    /\ views = NoViews
    /\ state = Unused
    /\ owned = FALSE
    /\ refs = {}
    /\ refMuts = {}
    /\ overflowChecks \in BOOLEAN

\* via.set(v)
Cell_set(via, v) ==
    /\ cell' = Cell_set_result(cell, v)
    /\ cellHist' = Stored("set", v)
    /\ last' = Call("Cell_set", "Ok", NoGuard, <<via, v>>)
    /\ UNCHANGED <<refCellVars, guardVars>>

\* via.get()
Cell_get(via) ==
    /\ last' = Call("Cell_get", "Ok", NoGuard, <<via, Cell_get_result(cell)>>)
    /\ UNCHANGED <<cell, cellHist, refCellVars, guardVars>>

\* via.take()
Cell_take(via) ==
    /\ LET r == Cell_take_result(cell) IN
         /\ cell' = r.cell
         /\ last' = Call("Cell_take", "Ok", NoGuard, <<via, r.ret>>)
    /\ cellHist' = Stored("take", Default)
    /\ UNCHANGED <<refCellVars, guardVars>>

\* via.replace(v)
Cell_replace(via, v) ==
    /\ LET r == Cell_replace_result(cell, v) IN
         /\ cell' = r.cell
         /\ last' = Call("Cell_replace", "Ok", NoGuard, <<via, v, r.ret>>)
    /\ cellHist' = Stored("replace", v)
    /\ UNCHANGED <<refCellVars, guardVars>>

NextCell ==
    \/ \E via \in Aliases : \E v \in CellValues : Cell_set(via, v)
    \/ \E via \in Aliases : Cell_get(via)
    \/ \E via \in Aliases : Cell_take(via)
    \/ \E via \in Aliases : \E v \in CellValues : Cell_replace(via, v)

SpecCell == InitCell /\ [][NextCell]_vars

\* ============================== guards over a caller's Cell<State>
\* Ref::new and RefMut::new are public: a caller can build guards over its
\* own Cell<State>, here the variable state, whatever that cell holds.
\* Largest number of such guards that are live at the same time.
MaxNewGuards == 2

\* Cell::new(s) for every State s; there is no RefCell.
InitGuard ==
    /\ state \in State
    /\ refs = {}
    /\ refMuts = {}
    /\ owned = FALSE
    /\ overflowChecks \in BOOLEAN
    /\ value = 0
    /\ given = 0
    /\ lastWrite = <<>>
    /\ views = NoViews
    /\ cell = Default
    /\ cellHist = Stored("new", Default)
    /\ last = Call("Cell_new", "Ok", NoGuard, NoOut)

\* Ref::new(&state, &value): stores the two references, reads nothing.
Ref_new ==
    /\ Cardinality(refs \cup refMuts) < MaxNewGuards
    /\ refs' = refs \cup {NextId}
    /\ last' = Call("Ref_new", "Ok", {NextId}, NoOut)
    /\ UNCHANGED <<state, refMuts, refCellVars, cell, cellHist>>

\* RefMut::new(&state, &mut value)
RefMut_new ==
    /\ Cardinality(refs \cup refMuts) < MaxNewGuards
    /\ refMuts' = refMuts \cup {NextId}
    /\ last' = Call("RefMut_new", "Ok", {NextId}, NoOut)
    /\ UNCHANGED <<state, refs, refCellVars, cell, cellHist>>

\* state.set(s) by the caller that owns the Cell<State>.
State_set(s) ==
    /\ state' = Cell_set_result(state, s)
    /\ last' = Call("Cell_set", "Ok", NoGuard, NoOut)
    /\ UNCHANGED <<refs, refMuts, refCellVars, cell, cellHist>>

NextGuard ==
    \/ Ref_new
    \/ RefMut_new
    \/ \E s \in State : State_set(s)
    \/ \E g \in GuardIds : Ref_drop(g)
    \/ \E g \in GuardIds : RefMut_drop(g)

SpecGuard == InitGuard /\ [][NextGuard]_vars

\* ================================================================ claims
Guards == refs \cup refMuts
ReaderGuards(n) == Cardinality(refs) = n /\ refMuts = {}

\* C1: the stored state equals the census of live guards: HasReaders(n) iff
\* exactly n Refs and no RefMut are live, HasWriter iff exactly one RefMut
\* and no Ref is live, Unused iff no guard is live.
C1_StateIsCensus ==
    /\ \A n \in 1 .. MaxGuards :
          (state.tag = "HasReaders" /\ state.n = n) <=> ReaderGuards(n)
    /\ state = HasWriter <=> (Cardinality(refMuts) = 1 /\ refs = {})
    /\ state = Unused <=> Guards = {}

\* C2: at most one RefMut is live, and a live RefMut never coexists with a
\* live Ref.
C2_WriterExcludesAll ==
    /\ Cardinality(refMuts) <= 1
    /\ refMuts # {} => refs = {}

\* C3: try_borrow in state HasWriter returns Err, creates no guard and leaves
\* the state and the live guards as they were; the RefMut stays the one live
\* guard the state speaks of, and its release finds HasWriter and sets Unused.
C3_TryBorrowErrWhenWriter ==
    [][/\ (last'.op = "try_borrow" /\ state = HasWriter) =>
             /\ last'.res = "Err"
             /\ last'.guard = NoGuard
             /\ state' = HasWriter
             /\ refs' = refs /\ refMuts' = refMuts /\ value' = value
       /\ (last'.op = "RefMut_drop") =>
             /\ state = HasWriter
             /\ last'.res = "Ok"
             /\ state' = Unused]_vars

C3_Witness ==
    /\ last.op = "try_borrow"
    /\ last.res = "Err"
    /\ state = HasWriter
    /\ Cardinality(refMuts) = 1

\* C4: try_borrow_mut in state HasReaders(n), n >= 1, or HasWriter returns
\* Err, creates no guard and leaves the state (variant and count) and the
\* live guards as they were.
C4_TryBorrowMutErrWhenBorrowed ==
    [][(/\ last'.op = "try_borrow_mut"
        /\ \/ state = HasWriter
           \/ (state.tag = "HasReaders" /\ state.n >= 1)) =>
             /\ last'.res = "Err"
             /\ last'.guard = NoGuard
             /\ state' = state
             /\ refs' = refs /\ refMuts' = refMuts /\ value' = value]_vars

\* the holder of the only Ref asked for a RefMut and was refused
C4_Witness ==
    /\ last.op = "try_borrow_mut"
    /\ last.res = "Err"
    /\ state = HasReaders(1)
    /\ Cardinality(refs) = 1
    /\ refMuts = {}

\* C5: try_borrow succeeds from Unused with HasReaders(1) and from
\* HasReaders(n) with HasReaders(n+1), try_borrow_mut succeeds from Unused
\* with HasWriter, each with one new guard; a new RefCell is Unused.
C5_BorrowSucceeds ==
    [][/\ (last'.op = "try_borrow" /\ state.tag # "HasWriter") =>
             /\ last'.res = "Ok"
             /\ state' = HasReaders(IF state = Unused THEN 1 ELSE state.n + 1)
             /\ Cardinality(refs') = Cardinality(refs) + 1
       /\ (last'.op = "try_borrow_mut" /\ state = Unused) =>
             /\ last'.res = "Ok"
             /\ state' = HasWriter
             /\ Cardinality(refMuts') = Cardinality(refMuts) + 1
       /\ (last'.op = "new") => state' = Unused]_vars

\* C6: whenever every guard obtained from the cell has been released, the
\* state is Unused and both try_borrow and try_borrow_mut succeed.
C6_AllReleasedIsUnused ==
    (owned /\ Guards = {}) =>
        /\ state = Unused
        /\ try_borrow_result(state, overflowChecks).res = "Ok"
        /\ try_borrow_mut_result(state).res = "Ok"

\* the last guard of a history with a release in it has just been released
C6_Witness ==
    /\ owned
    /\ Guards = {}
    /\ last.op \in {"Ref_drop", "RefMut_drop"}
    /\ state = Unused

\* C7: borrow and borrow_mut either succeed like try_borrow and
\* try_borrow_mut (Ok, one new guard, the same next state) or panic with no
\* guard and no state change; borrow panics exactly in HasWriter, borrow_mut
\* exactly in HasReaders(n) and HasWriter.
C7_BorrowPanicsExactlyWhenErr ==
    [][/\ (last'.op = "borrow") =>
             /\ IsPanic(last'.res) <=> state = HasWriter
             /\ IsPanic(last'.res) =>
                   (last'.guard = NoGuard /\ state' = state /\ refs' = refs)
             /\ ~IsPanic(last'.res) =>
                   /\ last'.res = "Ok"
                   /\ Cardinality(refs') = Cardinality(refs) + 1
       /\ (last'.op = "borrow_mut") =>
             /\ IsPanic(last'.res) <=> state.tag \in {"HasReaders", "HasWriter"}
             /\ IsPanic(last'.res) =>
                   (last'.guard = NoGuard /\ state' = state /\ refMuts' = refMuts)
             /\ ~IsPanic(last'.res) =>
                   /\ last'.res = "Ok"
                   /\ state' = HasWriter
                   /\ Cardinality(refMuts') = Cardinality(refMuts) + 1]_vars

\* C9: into_inner returns the value given to new when nothing was written
\* through a RefMut, and the last value written otherwise.
C9_IntoInnerReturnsPayload ==
    (last.op = "into_inner") =>
        last.out = (IF lastWrite = <<>> THEN <<given>> ELSE lastWrite)

\* into_inner after a write that changed the payload
C9_Witness ==
    /\ last.op = "into_inner"
    /\ lastWrite # <<>>
    /\ lastWrite # <<given>>
    /\ last.out = lastWrite

\* C10: Debug for RefCell writes the placeholder "<borrowed>" iff the state
\* is HasWriter, and the payload value in Unused and in every HasReaders(n).
C10_DebugShowsPlaceholderIffWriter ==
    [][(last'.op = "fmt") =>
          /\ (last'.out = <<"RefCell", "value", Placeholder>>) <=> state = HasWriter
          /\ state # HasWriter =>
                last'.out = <<"RefCell", "value", <<"Ref", "value", value>>>>]_vars

\* C11: Cell::take on a cell holding X returns X and leaves the default
\* value; a take that follows a take with no store in between returns the
\* default value, through whichever reference it is made.
C11_TakeLeavesDefault ==
    [][(last'.op = "Cell_take") =>
          /\ last'.out[2] = cell
          /\ cell' = Default
          /\ cellHist.op = "take" => last'.out[2] = Default]_vars

\* a take through p2 moved a value other than the default out
C11_Witness ==
    /\ last.op = "Cell_take"
    /\ last.out[1] = "p2"
    /\ last.out[2] # Default
    /\ cell = Default

\* C12: Cell::replace(Y) on a cell holding X returns X and leaves Y; in a
\* chain of replace calls each returns the argument of the one before (the
\* first one the initial value), through whichever reference it is made.
C12_ReplaceReturnsPrevious ==
    [][(last'.op = "Cell_replace") =>
          /\ last'.out[3] = cell
          /\ cell' = last'.out[2]
          /\ cellHist.op \in {"new", "replace"} => last'.out[3] = cellHist.arg]_vars

\* the second replace of a chain, made through another reference
C12_Witness ==
    /\ last.op = "Cell_replace"
    /\ last.out[1] = "p2"
    /\ last.out[3] # Default
    /\ last.out[3] # last.out[2]
    /\ cell = last.out[2]

\* C13: Cell::set(v) overwrites the content whatever it was, every get until
\* the next set, replace or take returns v through whichever reference, and
\* get leaves the content alone.
C13_GetReturnsLastSet ==
    [][/\ (last'.op = "Cell_set") => cell' = last'.out[2]
       /\ (last'.op = "Cell_get") =>
             /\ cell' = cell
             /\ last'.out[2] = cell
             /\ cellHist.op = "set" => last'.out[2] = cellHist.arg]_vars

\* a get through p2 of a value that a set stored
C13_Witness ==
    /\ last.op = "Cell_get"
    /\ last.out[1] = "p2"
    /\ cellHist.op = "set"
    /\ cellHist.arg # Default
    /\ last.out[2] = cellHist.arg

\* C14: the reader count is exact for every representable n: try_borrow
\* from HasReaders(n) yields HasReaders(n+1) with n+1 > n, also for the
\* largest n, and the count never wraps around.
C14_ReaderCountNeverWraps ==
    [][(last'.op \in {"try_borrow", "borrow"} /\ state.tag = "HasReaders") =>
          /\ last'.res = "Ok"
          /\ state'.tag = "HasReaders"
          /\ state'.n = state.n + 1
          /\ state'.n > state.n]_vars

\* C15: releasing a Ref sets Unused from HasReaders(1) and HasReaders(n-1)
\* from HasReaders(n), n > 1, releasing the RefMut sets Unused from
\* HasWriter, and in whatever order Refs are released the state after a
\* release is the one that belongs to the number of Refs that remain.
C15_ReleaseCountsDown ==
    [][/\ (last'.op = "Ref_drop" /\ state = HasReaders(1)) => state' = Unused
       /\ (last'.op = "Ref_drop" /\ state.tag = "HasReaders" /\ state.n > 1) =>
             state' = HasReaders(state.n - 1)
       /\ (last'.op = "RefMut_drop" /\ state = HasWriter) => state' = Unused
       /\ (last'.op = "Ref_drop" /\ refMuts = {}) =>
             state' = (IF refs' = {} THEN Unused
                       ELSE HasReaders(Cardinality(refs')))]_vars

\* C16: the stored state is never HasReaders(0).
C16_NeverHasReadersZero == state # HasReaders(0)

\* C17: with guards obtained from the RefCell only, every Ref release finds
\* HasReaders(n), n >= 1, every RefMut release finds HasWriter, and the
\* unreachable! branch of neither Drop is taken.
C17_UnreachableNeverReached ==
    [][/\ (last'.op = "Ref_drop") =>
             /\ state.tag = "HasReaders" /\ state.n >= 1
             /\ last'.res # "PanicUnreachable"
       /\ (last'.op = "RefMut_drop") =>
             /\ state = HasWriter
             /\ last'.res # "PanicUnreachable"]_vars

\* C18: a guard released against a state that does not match it takes the
\* unreachable! branch and does not write the state: a Ref in Unused,
\* HasWriter or HasReaders(0), a RefMut in every state but HasWriter.
C18_MismatchedReleaseAborts ==
    [][/\ (last'.op = "Ref_drop" /\ state \in {Unused, HasWriter, HasReaders(0)}) =>
             /\ last'.res = "PanicUnreachable"
             /\ state' = state
       /\ (last'.op = "RefMut_drop" /\ state # HasWriter) =>
             /\ last'.res = "PanicUnreachable"
             /\ state' = state]_vars

\* C19: Debug for RefCell returns with the borrow state it found, in every
\* state, and changes neither the payload nor the live guards.
C19_DebugLeavesState ==
    [][(last'.op = "fmt") =>
          /\ ~IsPanic(last'.res)
          /\ state' = state
          /\ value' = value
          /\ refs' = refs /\ refMuts' = refMuts]_vars

====
